---- MODULE Spec2Model ----
(***************************************************************************)
(* Tag-relation graph engine of sok_bevy: the dataset loader               *)
(* (MetaRelation::new, get_all_relations), the top-N and shortest-path     *)
(* queries of a MetaRelation (src/src/data.rs) and the cross-domain merge  *)
(* generate_universe_cartography (src/src/universe.rs).                    *)
(***************************************************************************)
EXTENDS Integers, Sequences, FiniteSets, TLC

VARIABLES
    files,              \* the dataset directory: Seq of [domain, data], data = parsed JSON map
    meta_relations,     \* Vec<MetaRelation> returned by get_all_relations
    pc,                 \* position of the program
    op,                 \* the last query issued on a MetaRelation
    result,             \* the value that query returned
    fault,              \* TRUE once a call has panicked or cannot return
    expansions,         \* number of calls of ConnectedTag::neighbours made by the last find_path
    galaxies,           \* HashMap<String, Galaxy>
    planets,            \* HashMap<String, Planet>
    discovered_planets, \* HashSet<String> of pass 2
    explored_planets,   \* HashSet<String> of pass 3
    idx,                \* index in meta_relations of the `meta` being iterated
    todo                \* keys of meta.relation_map the running iteration has not yielded yet

vars == <<files, meta_relations, pc, op, result, fault, expansions, galaxies,
          planets, discovered_planets, explored_planets, idx, todo>>

queryVars == <<op, result, fault, expansions>>
universeVars == <<galaxies, planets, discovered_planets, explored_planets, idx, todo>>

(***************************************************************************)
(* Bounds of the model and the input families.                             *)
(***************************************************************************)
\* tag names of the single-domain datasets the queries run on
Tags == {"a", "b", "c"}
\* co-occurrence counts of those datasets: weights 200, 100 and 0
Counts == {5, 10, 2000}
\* most {name, count} records in one dataset file of the query family
MaxRecords == 3
\* largest n handed to find_top_n
MaxN == 4
\* tag names of the datasets the top-N queries run on
TopTags == {"a", "b"}
\* tag names of the datasets the universe is assembled from
UTags == {"a", "b"}
\* most {name, count} records in one dataset file of the universe family
MaxDomainRecords == 2
\* most entries of the dataset directory of the loader family
MaxFiles == 2
\* co-occurrence counts of the datasets with a zero count: weights i32::MAX
\* and 100
ZeroCounts == {0, 10}
\* most {name, count} records in one dataset file of the zero-count family
MaxZeroRecords == 3
\* the counts 1..MaxCount, and i32::MAX, are the counts of the weight family
MaxCount == 1100

EmptyMap == [k \in {} |-> <<>>]

ConnectedTag(name, count) == [name |-> name, count |-> count]

SeqsUpTo(S, n) == UNION {[1..k -> S] : k \in 0..n}

RecordsOver(T, C) == {ConnectedTag(t, c) : t \in T, c \in C}

\* a neighbor list that names no tag twice
DistinctNames(l) == \A i \in DOMAIN l : \A j \in DOMAIN l : i # j => l[i].name # l[j].name

\* what a dataset file says of one tag: absent, or a key with a neighbor list
\* of L of at most n records
Entries(L, n) ==
    {[present |-> FALSE, list |-> <<>>]}
    \cup {[present |-> TRUE, list |-> l] : l \in {x \in L : Len(x) <= n}}

\* the parsed contents of the file that says es[i] of the tag names[i]
MapOf(names, es) ==
    [k \in {names[i] : i \in {j \in DOMAIN names : es[j].present}} |->
        es[CHOOSE i \in DOMAIN names : names[i] = k].list]

File(domain, data) == [domain |-> domain, data |-> data]

\* a directory entry get_all_relations cannot turn into a MetaRelation:
\* File::open fails ("open") or serde_json::from_reader fails ("parse")
BadFile(domain, error) == [domain |-> domain, error |-> error]
\* an entry for which the directory iterator yields Err
BadEntry == [error |-> "dir_entry"]
\* a directory read_dir cannot list: Err before any entry is seen
Unlistable == <<[error |-> "read_dir"]>>

\* lists of the datasets of the shortest-path queries: no list names a tag twice
PathLists == {l \in SeqsUpTo(RecordsOver(Tags, Counts), MaxRecords) : DistinctNames(l)}

\* lists of the datasets of the top-N queries: repeated names and equal counts included
TopNLists == SeqsUpTo(RecordsOver(TopTags, Counts), MaxRecords)

\* number of records of l with the count 0
ZerosIn(l) == Cardinality({i \in DOMAIN l : l[i].count = 0})

\* lists of the datasets with a zero count: no list names a tag twice, and at
\* most one record of a list has the count 0
ZeroLists ==
    {l \in SeqsUpTo(RecordsOver(Tags, ZeroCounts), MaxZeroRecords) :
        DistinctNames(l) /\ ZerosIn(l) <= 1}

(***************************************************************************)
(* Dataset loader                                                          *)
(***************************************************************************)
\* an unstable placement: x goes before the records of its own count
InsertDescBeforeEquals(s, x) ==
    LET p == Cardinality({i \in DOMAIN s : s[i].count > x.count})
    IN SubSeq(s, 1, p) \o <<x>> \o SubSeq(s, p + 1, Len(s))

\* position at which the stable descending sort places x in the sorted s:
\* after every record whose count is >= x.count
InsertDesc(s, x) ==
    LET p == Cardinality({i \in DOMAIN s : s[i].count >= x.count})
    IN SubSeq(s, 1, p) \o <<x>> \o SubSeq(s, p + 1, Len(s))

\* the sort without its .reverse(): ascending by count
InsertAsc(s, x) ==
    LET p == Cardinality({i \in DOMAIN s : s[i].count <= x.count})
    IN SubSeq(s, 1, p) \o <<x>> \o SubSeq(s, p + 1, Len(s))

RECURSIVE SortAsc(_)
SortAsc(tags) ==
    IF tags = <<>> THEN <<>>
    ELSE InsertAsc(SortAsc(SubSeq(tags, 1, Len(tags) - 1)), tags[Len(tags)])

\* tags.sort_by(|a, b| a.count.partial_cmp(&b.count).unwrap().reverse()): a
\* stable sort, descending by count
RECURSIVE SortDesc(_)
SortDesc(tags) ==
    IF tags = <<>> THEN <<>>
    ELSE InsertDesc(SortDesc(SubSeq(tags, 1, Len(tags) - 1)), tags[Len(tags)])

MetaRelationNew(domain, data) ==
    [domain |-> domain, relation_map |-> [k \in DOMAIN data |-> SortDesc(data[k])]]

\* get_all_relations: one MetaRelation per file, in the directory's order
GetAllRelations(dir) ==
    [i \in DOMAIN dir |-> MetaRelationNew(dir[i].domain, dir[i].data)]

\* the entry makes read_dir(..).expect(), the collected Result's unwrap() or
\* MetaRelation::new(..).unwrap() panic
Failed(entry) == "error" \in DOMAIN entry

\* a loader that leaves out the files it cannot read
LoadSkippingFailures(dir) ==
    [fault |-> FALSE, value |-> GetAllRelations(SelectSeq(dir, LAMBDA e : ~Failed(e)))]

\* get_all_relations with its expect() and unwrap()s: the Vec of all
\* MetaRelations, or a panic that returns nothing
LoadAll(dir) ==
    IF \E i \in DOMAIN dir : Failed(dir[i])
    THEN [fault |-> TRUE, value |-> <<>>]
    ELSE [fault |-> FALSE, value |-> GetAllRelations(dir)]

(***************************************************************************)
(* Relation graph: top-N query                                             *)
(***************************************************************************)
Min(x, y) == IF x <= y THEN x ELSE y

\* find_top_n without its contains_key test: get().unwrap() panics on a tag
\* that is no key
FindTopNUnguarded(relation_map, tag_query, n) ==
    IF tag_query \in DOMAIN relation_map
    THEN [fault |-> FALSE,
          value |-> SubSeq(relation_map[tag_query], 1, Min(n, Len(relation_map[tag_query])))]
    ELSE [fault |-> TRUE, value |-> <<>>]

\* MetaRelation::find_top_n: tags.iter().take(n), or vec![] when tag_query is
\* no key; no path panics
FindTopN(relation_map, tag_query, n) ==
    IF tag_query \in DOMAIN relation_map
    THEN [fault |-> FALSE,
          value |-> SubSeq(relation_map[tag_query], 1, Min(n, Len(relation_map[tag_query])))]
    ELSE [fault |-> FALSE, value |-> <<>>]

(***************************************************************************)
(* Relation graph: shortest path                                           *)
(***************************************************************************)
I32Max == 2147483647

\* the quotient taken the wrong way round: count / 1000
WeightInverted(count) == count \div 1000

\* the quotient rounded to the nearest integer, not truncated
WeightRounded(count) ==
    IF count = 0 THEN I32Max ELSE (1000 + (count \div 2)) \div count

\* (1000.0 / (count as f64)) as i32: the cast truncates toward zero and
\* saturates, so the infinite quotient of count = 0 becomes i32::MAX
Weight(count) ==
    IF count = 0 THEN I32Max
    ELSE IF count > 0 THEN 1000 \div count
    ELSE 0 - (1000 \div (0 - count))

\* ConnectedTag::neighbours: the (record, weight) pairs of the node's list, in
\* list order, or none when the node's name is no key
Neighbours(t, relation_map) ==
    IF t.name \in DOMAIN relation_map
    THEN [i \in DOMAIN relation_map[t.name] |->
             [node |-> relation_map[t.name][i],
              move_cost |-> Weight(relation_map[t.name][i].count)]]
    ELSE <<>>

\* the success closure with its test negated
SuccessNegated(t, goal) == t.name # goal

\* a success closure that does not accept the start node
SuccessNotStart(t, goal) == t.name = goal /\ t.count # 0

\* the success closure |t| *t.name == goal
Success(t, goal) == t.name = goal

\* the node the search starts from
StartNode(start) == ConnectedTag(start, 0)

\* index of node n in the insertion-ordered map `parents`, 0 when absent
IndexOf(parents, n) ==
    IF \E i \in DOMAIN parents : parents[i].node = n
    THEN CHOOSE i \in DOMAIN parents : parents[i].node = n
    ELSE 0

\* one successor of the node at `index`, reached with total cost new_cost:
\* recorded when new or strictly cheaper, and then pushed on the heap
RelaxOne(st, succ, index, new_cost) ==
    LET p == IndexOf(st.parents, succ)
    IN IF p = 0
       THEN [parents |-> Append(st.parents,
                                [node |-> succ, parent |-> index, cost |-> new_cost]),
             to_see |-> st.to_see \cup {[cost |-> new_cost, index |-> Len(st.parents) + 1]},
             fault |-> st.fault]
       ELSE IF st.parents[p].cost > new_cost
       THEN [parents |-> [st.parents EXCEPT ![p] =
                                [node |-> succ, parent |-> index, cost |-> new_cost]],
             to_see |-> st.to_see \cup {[cost |-> new_cost, index |-> p]},
             fault |-> st.fault]
       ELSE st

\* x + y leaves the range of i32
AddOverflows(x, y) ==
    \/ x > 0 /\ y > 0 /\ x > I32Max - y
    \/ x < 0 /\ y < 0 /\ x < (0 - I32Max - 1) - y

\* x + y in i32 without overflow checks: the sum modulo 2^32
WrappingAdd(x, y) ==
    IF x > 0 /\ y > 0 /\ x > I32Max - y
    THEN ((x - I32Max) - 1) + ((y - I32Max) - 1)
    ELSE IF x < 0 /\ y < 0 /\ x < (0 - I32Max - 1) - y
    THEN ((x + I32Max) + 1) + ((y + I32Max) + 1)
    ELSE x + y

\* `for (successor, move_cost) in successors`: new_cost = cost + move_cost
\* panics on overflow in a build with overflow checks and wraps in one
\* without
RECURSIVE Relax(_, _, _, _, _, _)
Relax(st, succs, i, index, cost, checked) ==
    IF i > Len(succs) \/ st.fault THEN st
    ELSE IF checked /\ AddOverflows(cost, succs[i].move_cost)
    THEN [st EXCEPT !.fault = TRUE]
    ELSE Relax(RelaxOne(st, succs[i].node, index, WrappingAdd(cost, succs[i].move_cost)),
               succs, i + 1, index, cost, checked)

\* the heap entries BinaryHeap::pop may yield: those of smallest cost (the
\* order among equal costs is the heap's own)
Cheapest(to_see) == {e \in to_see : \A f \in to_see : e.cost <= f.cost}

\* the uniform-cost search run by dijkstra(): every outcome it can end with,
\* as [target, parents, expanded, fault]; target = 0 stands for None. A
\* popped entry that is not the best known cost of its node is discarded.
RECURSIVE RunDijkstra(_, _, _, _, _)
RunDijkstra(relation_map, goal, st, expanded, checked) ==
    IF st.fault
    THEN {[target |-> 0, parents |-> st.parents, expanded |-> expanded, fault |-> TRUE]}
    ELSE IF st.to_see = {}
    THEN {[target |-> 0, parents |-> st.parents, expanded |-> expanded, fault |-> FALSE]}
    ELSE UNION {
        LET node == st.parents[e.index].node
            rest == [parents |-> st.parents, to_see |-> st.to_see \ {e}, fault |-> FALSE]
        IN IF Success(node, goal)
           THEN {[target |-> e.index, parents |-> st.parents, expanded |-> expanded,
                  fault |-> FALSE]}
           ELSE IF e.cost > st.parents[e.index].cost
           THEN RunDijkstra(relation_map, goal, rest, expanded, checked)
           ELSE RunDijkstra(relation_map, goal,
                            Relax(rest, Neighbours(node, relation_map), 1, e.index, e.cost,
                                  checked),
                            expanded + 1, checked)
        : e \in Cheapest(st.to_see)}

\* reverse_path: the nodes from the start to the target along the parents
RECURSIVE PathTo(_, _)
PathTo(parents, i) ==
    IF i = 0 THEN <<>> ELSE Append(PathTo(parents, parents[i].parent), parents[i].node)

\* the parents of node i lead back to the start node within `fuel` steps; a
\* wrapped cost can make the start node the child of another node, and then
\* reverse_path follows the parents without end
RECURSIVE EndsAtStart(_, _, _)
EndsAtStart(parents, i, fuel) ==
    IF i = 0 THEN TRUE
    ELSE IF fuel = 0 THEN FALSE
    ELSE EndsAtStart(parents, parents[i].parent, fuel - 1)

NoPath(expanded) ==
    [fault |-> FALSE, some |-> FALSE, path |-> <<>>, cost |-> 0, expanded |-> expanded]

\* the outcomes of the search in a build with (checked) or without
\* overflow checks
DijkstraBuild(relation_map, start, goal, checked) ==
    {IF r.fault THEN [NoPath(r.expanded) EXCEPT !.fault = TRUE]
     ELSE IF r.target = 0 THEN NoPath(r.expanded)
     ELSE IF ~EndsAtStart(r.parents, r.target, Len(r.parents))
     THEN [NoPath(r.expanded) EXCEPT !.fault = TRUE]
     ELSE [fault |-> FALSE, some |-> TRUE, path |-> PathTo(r.parents, r.target),
           cost |-> r.parents[r.target].cost, expanded |-> r.expanded]
     : r \in RunDijkstra(relation_map, goal,
                         [parents |-> <<[node |-> StartNode(start), parent |-> 0, cost |-> 0]>>,
                          to_see |-> {[cost |-> 0, index |-> 1]},
                          fault |-> FALSE],
                         0, checked)}

\* dijkstra() in either build; the builds differ only when a sum overflows,
\* that is when the checked build can panic
Dijkstra(relation_map, start, goal) ==
    LET rs == DijkstraBuild(relation_map, start, goal, TRUE)
    IN rs \cup (IF \E r \in rs : r.fault
                THEN DijkstraBuild(relation_map, start, goal, FALSE)
                ELSE {})

\* find_path without the lookup of goal before the search
FindPathNoGoalCheck(relation_map, start, goal) == Dijkstra(relation_map, start, goal)

\* find_path looking up start, not goal, before the search
FindPathChecksStart(relation_map, start, goal) ==
    IF start \notin DOMAIN relation_map THEN {NoPath(0)}
    ELSE Dijkstra(relation_map, start, goal)

\* find_path refusing a query whose start is its goal
FindPathNoSelf(relation_map, start, goal) ==
    IF goal \notin DOMAIN relation_map \/ start = goal THEN {NoPath(0)}
    ELSE Dijkstra(relation_map, start, goal)

\* MetaRelation::find_path: the outcomes the call can have; None at once when
\* goal is no key
FindPath(relation_map, start, goal) ==
    IF goal \notin DOMAIN relation_map THEN {NoPath(0)}
    ELSE Dijkstra(relation_map, start, goal)

(***************************************************************************)
(* The program: load, then queries                                         *)
(***************************************************************************)
NoOp == [fn |-> "none"]

InitCommon ==
    /\ meta_relations = <<>>
    /\ pc = "start"
    /\ op = NoOp
    /\ result = <<>>
    /\ fault = FALSE
    /\ expansions = 0
    /\ galaxies = EmptyMap
    /\ planets = EmptyMap
    /\ discovered_planets = {}
    /\ explored_planets = {}
    /\ idx = 0
    /\ todo = {}

\* the dataset directory holds one file over the tags of Tags, of at most
\* MaxRecords records
Init ==
    /\ \E E \in {Entries(PathLists, MaxRecords)} :
       \E ea \in E : \E eb \in E :
          /\ Len(ea.list) + Len(eb.list) <= MaxRecords
          /\ \E ec \in E :
               /\ Len(ea.list) + Len(eb.list) + Len(ec.list) <= MaxRecords
               /\ files = <<File("stackoverflow", MapOf(<<"a", "b", "c">>, <<ea, eb, ec>>))>>
    /\ InitCommon

\* get_all_relations("datasets/")
Load ==
    /\ pc = "start"
    /\ LET r == LoadAll(files)
       IN /\ meta_relations' = r.value
          /\ fault' = r.fault
          /\ pc' = IF r.fault THEN "panicked" ELSE "loaded"
    /\ UNCHANGED <<files, op, result, expansions, universeVars>>

\* a call of find_top_n on a loaded MetaRelation. The queries take &self and
\* change nothing, so a behaviour issues one query.
TopN ==
    /\ pc = "loaded"
    /\ op = NoOp
    /\ \E m \in DOMAIN meta_relations, t \in Tags, n \in 0..MaxN :
          LET r == FindTopN(meta_relations[m].relation_map, t, n)
          IN /\ op' = [fn |-> "find_top_n", meta |-> m, tag_query |-> t, n |-> n]
             /\ result' = r.value
             /\ fault' = r.fault
    /\ UNCHANGED <<files, meta_relations, pc, expansions, universeVars>>

\* a call of find_path on a loaded MetaRelation
Path ==
    /\ pc = "loaded"
    /\ op = NoOp
    /\ \E m \in DOMAIN meta_relations, start \in Tags, goal \in Tags :
          \E r \in FindPath(meta_relations[m].relation_map, start, goal) :
             /\ op' = [fn |-> "find_path", meta |-> m, start |-> start, goal |-> goal]
             /\ result' = [some |-> r.some, path |-> r.path, cost |-> r.cost]
             /\ fault' = r.fault
             /\ expansions' = r.expanded
    /\ UNCHANGED <<files, meta_relations, pc, universeVars>>

Next == Load \/ Path

\* load one dataset, then one shortest-path query
Spec == Init /\ [][Next]_vars

\* the dataset directory holds one file over the tags of TopTags, of at most
\* MaxRecords records
InitTopN ==
    /\ \E E \in {Entries(TopNLists, MaxRecords)} :
       \E ea \in E : \E eb \in E :
          /\ Len(ea.list) + Len(eb.list) <= MaxRecords
          /\ files = <<File("stackoverflow", MapOf(<<"a", "b">>, <<ea, eb>>))>>
    /\ InitCommon

\* the dataset directory holds one file over the tags of Tags, of at most
\* MaxZeroRecords records, at most one of them with the count 0
InitZero ==
    /\ \E E \in {Entries(ZeroLists, MaxZeroRecords)} :
       \E ea \in E : \E eb \in E :
          /\ Len(ea.list) + Len(eb.list) <= MaxZeroRecords
          /\ \E ec \in E :
               /\ Len(ea.list) + Len(eb.list) + Len(ec.list) <= MaxZeroRecords
               /\ ZerosIn(ea.list) + ZerosIn(eb.list) + ZerosIn(ec.list) <= 1
               /\ files = <<File("stackoverflow", MapOf(<<"a", "b", "c">>, <<ea, eb, ec>>))>>
    /\ InitCommon

\* load one dataset with a zero count, then one shortest-path query
SpecZero == InitZero /\ [][Next]_vars

\* counts of the weight family
WeightCounts == (1..MaxCount) \cup {I32Max}

\* the dataset directory holds one file, the chain a -> b -> c, whose first
\* record has a count of WeightCounts and whose second has count 1 or 1000
InitWeight ==
    /\ \E c \in WeightCounts, d \in {1, 1000} :
          files = <<File("stackoverflow",
                         ("a" :> <<ConnectedTag("b", c)>>)
                         @@ ("b" :> <<ConnectedTag("c", d)>>)
                         @@ ("c" :> <<>>))>>
    /\ InitCommon

\* load the chain, then one shortest-path query
SpecWeight == InitWeight /\ [][Next]_vars

NextTopN == Load \/ TopN

\* load one dataset, then one top-N query
SpecTopN == InitTopN /\ [][NextTopN]_vars

\* file names of the loader family, in the directory's order
LoadDomains == <<"stackoverflow", "askubuntu", "superuser", "serverfault">>
\* what the i-th directory entry of the loader family can be: a readable
\* file about the tag a, a file that fails to open or to parse, or an entry
\* the directory iterator fails on
LoadEntries(i) ==
    {File(LoadDomains[i], MapOf(<<"a">>, <<e>>)) : e \in Entries(TopNLists, 1)}
    \cup {BadFile(LoadDomains[i], err) : err \in {"open", "parse"}}
    \cup {BadEntry}

\* the dataset directory cannot be listed, or holds at most MaxFiles entries
InitLoad ==
    /\ \/ files = Unlistable
       \/ \E k \in 0..MaxFiles :
             \E es \in [1..k -> UNION {LoadEntries(i) : i \in 1..k}] :
                /\ \A i \in 1..k : es[i] \in LoadEntries(i)
                /\ files = es
    /\ InitCommon

NextLoad == Load

\* get_all_relations over a directory with unreadable entries
SpecLoad == InitLoad /\ [][NextLoad]_vars

(***************************************************************************)
(* Universe assembler: generate_universe_cartography                       *)
(***************************************************************************)
Galaxy(name) == [name |-> name]
Planet(name, conns, belong_galaxy) ==
    [name |-> name, conns |-> conns, belong_galaxy |-> belong_galaxy]
Connection(a, b, count) == [planet_pairs |-> {<<a, b>>}, count |-> count]

\* the dataset of the i-th file of the universe family gives every record the
\* count 10 * i
DomainCount(i) == 10 * i
DomainName(i) == IF i = 1 THEN "stackoverflow" ELSE "askubuntu"
UniverseLists(i) == SeqsUpTo(RecordsOver(UTags, {DomainCount(i)}), MaxDomainRecords)

\* the dataset directory holds two files over the tags of UTags, each of at
\* most MaxDomainRecords records
InitUniverse ==
    /\ \E E1 \in {Entries(UniverseLists(1), MaxDomainRecords)} :
       \E E2 \in {Entries(UniverseLists(2), MaxDomainRecords)} :
       \E ea \in E1 : \E eb \in E1 : \E fa \in E2 : \E fb \in E2 :
          /\ Len(ea.list) + Len(eb.list) <= MaxDomainRecords
          /\ Len(fa.list) + Len(fb.list) <= MaxDomainRecords
          /\ files = <<File(DomainName(1), MapOf(<<"a", "b">>, <<ea, eb>>)),
                       File(DomainName(2), MapOf(<<"a", "b">>, <<fa, fb>>))>>
    /\ InitCommon

\* pass 1: one Galaxy per domain
GenerateGalaxies ==
    /\ pc = "loaded"
    /\ galaxies' = [d \in {meta_relations[i].domain : i \in DOMAIN meta_relations} |->
                       Galaxy(d)]
    /\ pc' = "discover"
    /\ idx' = 0
    /\ todo' = {}
    /\ UNCHANGED <<files, meta_relations, queryVars, planets, discovered_planets,
                   explored_planets>>

\* pass 2 with neighbor names discovered as planets too
DiscoverEntryWithNeighbours(ps, discovered, domain, planet_name, connected_tags) ==
    LET names == ({planet_name}
                  \cup {connected_tags[i].name : i \in DOMAIN connected_tags}) \ discovered
    IN [planets |-> [n \in names |-> Planet(n, <<>>, {domain})] @@ ps,
        discovered |-> discovered \cup names]

\* the body of pass 2 for one map entry: a name not discovered yet gets a
\* Planet without connections, whose belong_galaxy holds the current domain
DiscoverEntry(ps, discovered, domain, planet_name, connected_tags) ==
    IF planet_name \notin discovered
    THEN [planets |-> (planet_name :> Planet(planet_name, <<>>, {domain})) @@ ps,
          discovered |-> discovered \cup {planet_name}]
    ELSE [planets |-> ps, discovered |-> discovered]

\* pass 2, `for meta in meta_relations.iter()`: the next domain, or on to pass 3
DiscoverNextMeta ==
    /\ pc = "discover"
    /\ todo = {}
    /\ IF idx < Len(meta_relations)
       THEN /\ idx' = idx + 1
            /\ todo' = DOMAIN meta_relations[idx + 1].relation_map
            /\ UNCHANGED <<pc, explored_planets>>
       ELSE /\ pc' = "connect"
            /\ idx' = 0
            /\ todo' = {}
            /\ explored_planets' = {}
    /\ UNCHANGED <<files, meta_relations, queryVars, galaxies, planets, discovered_planets>>

\* pass 2, one entry of meta.relation_map.iter(), in the HashMap's order
DiscoverPlanet ==
    /\ pc = "discover"
    /\ \E planet_name \in todo :
          LET meta == meta_relations[idx]
              r == DiscoverEntry(planets, discovered_planets, meta.domain, planet_name,
                                 meta.relation_map[planet_name])
          IN /\ planets' = r.planets
             /\ discovered_planets' = r.discovered
             /\ todo' = todo \ {planet_name}
    /\ UNCHANGED <<files, meta_relations, pc, queryVars, galaxies, explored_planets, idx>>

\* pass 3 without the test of the explored set: one Connection per record
RECURSIVE NewConnsUnfiltered(_, _, _, _)
NewConnsUnfiltered(planet_name, connected_tags, explored, i) ==
    IF i > Len(connected_tags) THEN <<>>
    ELSE <<Connection(planet_name, connected_tags[i].name, connected_tags[i].count)>>
         \o NewConnsUnfiltered(planet_name, connected_tags, explored, i + 1)

\* the Connections one entry of pass 3 pushes: one per record of the list
\* whose name is not explored, in list order
RECURSIVE NewConns(_, _, _, _)
NewConns(planet_name, connected_tags, explored, i) ==
    IF i > Len(connected_tags) THEN <<>>
    ELSE (IF connected_tags[i].name \in explored THEN <<>>
          ELSE <<Connection(planet_name, connected_tags[i].name, connected_tags[i].count)>>)
         \o NewConns(planet_name, connected_tags, explored, i + 1)

\* pass 3 with an explored set of its own for every domain
ConnectNextMetaPerDomain ==
    /\ pc = "connect"
    /\ todo = {}
    /\ IF idx < Len(meta_relations)
       THEN /\ idx' = idx + 1
            /\ todo' = DOMAIN meta_relations[idx + 1].relation_map
            /\ explored_planets' = {}
            /\ pc' = pc
       ELSE /\ pc' = "done"
            /\ UNCHANGED <<idx, todo, explored_planets>>
    /\ UNCHANGED <<files, meta_relations, queryVars, galaxies, planets, discovered_planets>>

\* pass 3, `for meta in meta_relations.iter()`: the next domain, or the end
ConnectNextMeta ==
    /\ pc = "connect"
    /\ todo = {}
    /\ IF idx < Len(meta_relations)
       THEN /\ idx' = idx + 1
            /\ todo' = DOMAIN meta_relations[idx + 1].relation_map
            /\ pc' = pc
       ELSE /\ pc' = "done"
            /\ UNCHANGED <<idx, todo>>
    /\ UNCHANGED <<files, meta_relations, queryVars, galaxies, planets, discovered_planets,
                   explored_planets>>

\* pass 3, one entry of meta.relation_map.iter(), in the HashMap's order;
\* planets.get_mut(planet_name).unwrap() panics on a name without a Planet
ConnectPlanet ==
    /\ pc = "connect"
    /\ \E planet_name \in todo :
          IF planet_name \in DOMAIN planets
          THEN /\ planets' = [planets EXCEPT ![planet_name].conns =
                                 @ \o NewConns(planet_name,
                                               meta_relations[idx].relation_map[planet_name],
                                               explored_planets, 1)]
               /\ explored_planets' = explored_planets \cup {planet_name}
               /\ todo' = todo \ {planet_name}
               /\ UNCHANGED <<pc, fault>>
          ELSE /\ fault' = TRUE
               /\ pc' = "panicked"
               /\ UNCHANGED <<planets, explored_planets, todo>>
    /\ UNCHANGED <<files, meta_relations, op, result, expansions, galaxies,
                   discovered_planets, idx>>

\* the planet a Connection leads to: the second component of its pair
PeerName(conn) == (CHOOSE p \in conn.planet_pairs : TRUE)[2]

\* the scene's setup_planets and setup_planetary_connections: name_to_planet
\* gets one entry per key of planets, and the lookup of every Connection's
\* peer by name is unwrapped
SetupPlanetaryConnections ==
    /\ pc = "done"
    /\ LET name_to_planet == DOMAIN planets
       IN IF \A planet_a_name \in DOMAIN planets :
                \A j \in DOMAIN planets[planet_a_name].conns :
                    PeerName(planets[planet_a_name].conns[j]) \in name_to_planet
          THEN pc' = "rendered" /\ fault' = fault
          ELSE pc' = "scene_panicked" /\ fault' = TRUE
    /\ UNCHANGED <<files, meta_relations, op, result, expansions, universeVars>>

NextUniverse ==
    \/ Load
    \/ GenerateGalaxies
    \/ DiscoverNextMeta
    \/ DiscoverPlanet
    \/ ConnectNextMeta
    \/ ConnectPlanet
    \/ SetupPlanetaryConnections

\* generate_universe_cartography over two datasets
SpecUniverse == InitUniverse /\ [][NextUniverse]_vars

\* tag names of the symmetric datasets
SymTags == {"a", "b", "c"}
\* lists of the i-th symmetric dataset: no list names a tag twice
SymLists(i) ==
    {l \in SeqsUpTo(RecordsOver(SymTags, {DomainCount(i)}), Cardinality(SymTags)) :
        DistinctNames(l)}

\* a relation map in which b is in a's list exactly when a is in b's list,
\* and every tag a list names is a key
Symmetric(data) ==
    \A k \in DOMAIN data : \A j \in DOMAIN data[k] :
        /\ data[k][j].name \in DOMAIN data
        /\ \E x \in DOMAIN data[data[k][j].name] : data[data[k][j].name][x].name = k

NoSelfLoop(data) == \A k \in DOMAIN data : \A j \in DOMAIN data[k] : data[k][j].name # k

\* the symmetric relation maps of the i-th dataset over SymTags
SymMaps(i) ==
    {d \in {MapOf(<<"a", "b", "c">>, <<ea, eb, ec>>) :
                ea \in Entries(SymLists(i), Cardinality(SymTags)),
                eb \in Entries(SymLists(i), Cardinality(SymTags)),
                ec \in Entries(SymLists(i), Cardinality(SymTags))} :
        Symmetric(d)}

\* the dataset directory holds one symmetric file, or two symmetric files
\* without self-loops
InitSymmetric ==
    /\ \/ \E d \in SymMaps(1) : files = <<File(DomainName(1), d)>>
       \/ \E M1 \in {{d \in SymMaps(1) : NoSelfLoop(d)}} :
          \E M2 \in {{d \in SymMaps(2) : NoSelfLoop(d)}} :
          \E d1 \in M1 : \E d2 \in M2 :
             files = <<File(DomainName(1), d1), File(DomainName(2), d2)>>
    /\ InitCommon

\* generate_universe_cartography over symmetric datasets
SpecSymmetric == InitSymmetric /\ [][NextUniverse]_vars

(***************************************************************************)
(* Properties of find_path                                                 *)
(***************************************************************************)
PathCalled == op.fn = "find_path"
RelationMap == meta_relations[op.meta].relation_map
IsKey(t) == t \in DOMAIN RelationMap
Records(t) == {RelationMap[t][i] : i \in DOMAIN RelationMap[t]}

\* the costs of the directed walks of at most k neighbor-list entries from u
\* to goal, each entry costing floor(1000 / count)
RECURSIVE WalkCosts(_, _, _, _)
WalkCosts(rm, u, goal, k) ==
    (IF u = goal THEN {0} ELSE {})
    \cup (IF k = 0 \/ u \notin DOMAIN rm THEN {}
          ELSE UNION {{(1000 \div rm[u][i].count) + c :
                          c \in WalkCosts(rm, rm[u][i].name, goal, k - 1)}
                      : i \in DOMAIN rm[u]})

\* with counts >= 1 no walk is cheaper than the cheapest walk that repeats no
\* tag, and such a walk follows fewer entries than there are tags
MinWalkCost(rm, start, goal) ==
    LET cs == WalkCosts(rm, start, goal, Cardinality(Tags))
    IN CHOOSE c \in cs : \A d \in cs : c <= d

RECURSIVE SumFloor(_, _)
SumFloor(path, i) ==
    IF i > Len(path) THEN 0 ELSE (1000 \div path[i].count) + SumFloor(path, i + 1)

PathNames(path) == [i \in DOMAIN path |-> path[i].name]

ExampleMap ==
    ("a" :> <<ConnectedTag("b", 10)>>) @@ ("b" :> <<ConnectedTag("a", 10)>>)
    @@ ("c" :> <<ConnectedTag("a", 5)>>)

\* C1: when find_path(start, goal) returns Some((path, cost)) on a map whose
\* counts are all >= 1, cost is the least sum of floor(1000 / count) over the
\* directed walks from start to goal along neighbor-list entries; on
\* {a:[b,10], b:[a,10], c:[a,5]} find_path(a,b) costs 100 and find_path(c,b)
\* goes c, a, b with cost 300.
C1_MinimumCost ==
    PathCalled =>
        /\ result.some => result.cost = MinWalkCost(RelationMap, op.start, op.goal)
        /\ (RelationMap = ExampleMap /\ op.start = "a" /\ op.goal = "b") =>
               (result.some /\ result.cost = 100)
        /\ (RelationMap = ExampleMap /\ op.start = "c" /\ op.goal = "b") =>
               (result.some /\ result.cost = 300
                /\ PathNames(result.path) = <<"c", "a", "b">>)

\* a direct edge start -> goal exists and the search found a cheaper detour
C1_Witness ==
    /\ PathCalled
    /\ result.some
    /\ Len(result.path) = 3
    /\ \E r \in Records(op.start) :
          r.name = op.goal /\ (1000 \div r.count) > result.cost

\* C2: a returned path is non-empty, starts at start, ends at goal, every
\* element after the first is a record of the neighbor list of the element
\* before it, and total_cost is the sum of floor(1000 / count) over the
\* elements after the first.
C2_PathWellFormed ==
    (PathCalled /\ result.some) =>
        /\ Len(result.path) >= 1
        /\ result.path[1].name = op.start
        /\ result.path[Len(result.path)].name = op.goal
        /\ \A i \in 2..Len(result.path) :
              /\ IsKey(result.path[i - 1].name)
              /\ result.path[i] \in Records(result.path[i - 1].name)
        /\ result.cost = SumFloor(result.path, 2)

C2_Witness ==
    /\ PathCalled
    /\ result.some
    /\ Len(result.path) = 3
    /\ result.cost > 0
    /\ result.path[2].count # result.path[3].count

\* C3: find_path returns None without expanding any node whenever goal is no
\* key of the relation map, also when goal is reachable as a neighbor record
\* and when start = goal.
C3_AbsentGoalIsNone ==
    (PathCalled /\ ~IsKey(op.goal)) =>
        (~result.some /\ ~fault /\ expansions = 0)

\* goal is no key, yet start's list names it
C3_Witness ==
    /\ PathCalled
    /\ ~IsKey(op.goal)
    /\ IsKey(op.start)
    /\ \E r \in Records(op.start) : r.name = op.goal
    /\ ~result.some

\* C4: for a key T, find_path(T, T) returns the one-element path T with cost
\* 0, whatever T's list holds.
C4_SelfPath ==
    (PathCalled /\ op.start = op.goal /\ IsKey(op.goal)) =>
        /\ result.some
        /\ result.cost = 0
        /\ Len(result.path) = 1
        /\ result.path[1].name = op.goal

\* T's list holds a self-loop of weight zero
C4_Witness ==
    /\ PathCalled
    /\ op.start = op.goal
    /\ IsKey(op.goal)
    /\ \E r \in Records(op.goal) : r.name = op.goal /\ (1000 \div r.count) = 0
    /\ result.some
    /\ Len(result.path) = 1

\* C7: for a start that is no key and a goal that is a key, find_path returns
\* None without a fault, after expanding the start node alone.
C7_AbsentStartIsNone ==
    (PathCalled /\ ~IsKey(op.start) /\ IsKey(op.goal)) =>
        (~result.some /\ ~fault /\ expansions = 1)

\* start is no key but occurs in the goal's list
C7_Witness ==
    /\ PathCalled
    /\ ~IsKey(op.start)
    /\ IsKey(op.goal)
    /\ \E r \in Records(op.goal) : r.name = op.start
    /\ ~result.some
    /\ expansions = 1

(***************************************************************************)
(* Properties of find_top_n                                                *)
(***************************************************************************)
TopNCalled == op.fn = "find_top_n"
Stored == RelationMap[op.tag_query]

\* C5: for a key T of a loaded domain, find_top_n(T, n) returns the first
\* min(n, |neighbors(T)|) records of T's stored list, with non-increasing
\* counts, so no omitted neighbor has a count greater than a returned one.
C5_TopNPrefix ==
    (TopNCalled /\ IsKey(op.tag_query)) =>
        /\ ~fault
        /\ Len(result) = Min(op.n, Len(Stored))
        /\ \A i \in DOMAIN result : result[i] = Stored[i]
        /\ \A i \in DOMAIN result : \A j \in DOMAIN result :
              i < j => result[i].count >= result[j].count
        /\ \A i \in DOMAIN result : \A j \in DOMAIN Stored :
              j > Len(result) => Stored[j].count <= result[i].count

\* the file lists T's neighbors in ascending order, and n cuts the list
C5_Witness ==
    /\ TopNCalled
    /\ IsKey(op.tag_query)
    /\ Len(result) = 2
    /\ Len(Stored) = 3
    /\ LET raw == files[op.meta].data[op.tag_query]
       IN raw[1].count < raw[2].count /\ raw[2].count < raw[3].count

\* C6: for a tag T that is no key, find_top_n(T, n) returns the empty
\* sequence and raises no fault, also when T is a neighbor record of others.
C6_TopNAbsentTag ==
    (TopNCalled /\ ~IsKey(op.tag_query)) => (result = <<>> /\ ~fault)

C6_Witness ==
    /\ TopNCalled
    /\ ~IsKey(op.tag_query)
    /\ op.n > 0
    /\ \E k \in DOMAIN RelationMap : \E r \in Records(k) : r.name = op.tag_query
    /\ result = <<>>

(***************************************************************************)
(* Properties of generate_universe_cartography                             *)
(***************************************************************************)
Generated == pc = "done"
KeysOf(i) == DOMAIN meta_relations[i].relation_map
AllKeys == UNION {KeysOf(i) : i \in DOMAIN meta_relations}
\* the neighbor records of domain i
RecordsOf(i) ==
    UNION {{meta_relations[i].relation_map[k][j] : j \in DOMAIN meta_relations[i].relation_map[k]}
           : k \in KeysOf(i)}
NeighbourNames == {r.name : r \in UNION {RecordsOf(i) : i \in DOMAIN meta_relations}}

\* C8: after generate_universe_cartography the planets map holds one Planet
\* per tag name that is a key of some domain's relation map: its key set is
\* the union of the key sets, each Planet's name is its key, and a tag that
\* is only a neighbor record gets no Planet.
C8_PlanetsAreKeys ==
    Generated =>
        /\ DOMAIN planets = AllKeys
        /\ \A k \in DOMAIN planets : planets[k].name = k
        /\ \A t \in NeighbourNames \ AllKeys : t \notin DOMAIN planets

\* one tag is a key of both domains, the other only a neighbor record
C8_Witness ==
    /\ Generated
    /\ KeysOf(1) = {"a"}
    /\ KeysOf(2) = {"a"}
    /\ "b" \in NeighbourNames
    /\ DOMAIN planets = {"a"}

\* C9 (as claimed): after generate_universe_cartography a domain D is in
\* P.belong_galaxy exactly when P's name is a key of D's relation map, so a
\* tag that is a key in two domains has both domain names.
C9_BelongGalaxyAllDomains ==
    Generated =>
        \A k \in DOMAIN planets : \A i \in DOMAIN meta_relations :
            (meta_relations[i].domain \in planets[k].belong_galaxy) <=> (k \in KeysOf(i))

\* domain i records the edge between a and b with count c, in a's list, in
\* b's list or in both
HasEdge(i, a, b, c) ==
    \/ a \in KeysOf(i) /\ \E j \in DOMAIN meta_relations[i].relation_map[a] :
          meta_relations[i].relation_map[a][j] = ConnectedTag(b, c)
    \/ b \in KeysOf(i) /\ \E j \in DOMAIN meta_relations[i].relation_map[b] :
          meta_relations[i].relation_map[b][j] = ConnectedTag(a, c)

\* the Connections of all Planets whose pair joins a and b, as (planet, index)
ConnsBetween(a, b) ==
    UNION {{<<k, j>> : j \in {x \in DOMAIN planets[k].conns :
                                planets[k].conns[x].planet_pairs \subseteq {<<a, b>>, <<b, a>>}}}
           : k \in DOMAIN planets}

\* C10 (as claimed): two domains that both contain the edge between a and b,
\* with counts 10 and 20, leave exactly one Connection for the pair {a, b} in
\* the merged model, for every iteration order.
C10_OneConnectionPerSharedEdge ==
    (Generated /\ HasEdge(1, "a", "b", 10) /\ HasEdge(2, "a", "b", 20)) =>
        Cardinality(ConnsBetween("a", "b")) = 1

(***************************************************************************)
(* Properties of the loader                                                *)
(***************************************************************************)
\* the records of l whose count is c, in the order of l
WithCount(l, c) == SelectSeq(l, LAMBDA r : r.count = c)
CountsIn(l) == {l[i].count : i \in DOMAIN l}

\* C11: after MetaRelation::new succeeds every tag's stored list is sorted by
\* count, non-increasing, holds exactly the records the file gives for that
\* tag (the same multiset), and records of equal count keep the relative
\* order they have in the file.
C11_StableDescendingSort ==
    pc = "loaded" =>
        \A i \in DOMAIN meta_relations :
            LET raw == files[i].data
                rm == meta_relations[i].relation_map
            IN /\ DOMAIN rm = DOMAIN raw
               /\ \A k \in DOMAIN rm :
                     /\ \A x \in DOMAIN rm[k] : \A y \in DOMAIN rm[k] :
                           x < y => rm[k][x].count >= rm[k][y].count
                     /\ Len(rm[k]) = Len(raw[k])
                     /\ \A c \in CountsIn(raw[k]) \cup CountsIn(rm[k]) :
                           WithCount(rm[k], c) = WithCount(raw[k], c)

\* the file lists a smaller count first, then two different records of one
\* greater count: the sort moves them and keeps their order
C11_Witness ==
    /\ pc = "loaded"
    /\ \E k \in DOMAIN files[1].data :
          LET raw == files[1].data[k]
              stored == meta_relations[1].relation_map[k]
          IN /\ Len(raw) = 3
             /\ raw[1].count < raw[2].count
             /\ raw[2].count = raw[3].count
             /\ raw[2].name # raw[3].name
             /\ stored = <<raw[2], raw[3], raw[1]>>

\* C12: get_all_relations is fail-fast: when the directory cannot be listed,
\* or one file cannot be opened or does not parse, the load aborts and
\* returns no MetaRelation, not even those of the files read before the
\* failing one.
C12_LoadFailFast ==
    (pc # "start" /\ \E i \in DOMAIN files : Failed(files[i])) =>
        (pc = "panicked" /\ fault /\ meta_relations = <<>>)

\* a readable file with a record comes before a file that does not parse
C12_Witness ==
    /\ pc = "panicked"
    /\ Len(files) = 2
    /\ ~Failed(files[1])
    /\ "a" \in DOMAIN files[1].data
    /\ files[1].data["a"] # <<>>
    /\ Failed(files[2])
    /\ files[2].error = "parse"
    /\ meta_relations = <<>>

\* C13 (as claimed): zero-count records are guarded: a record with count 0 is
\* rejected or skipped at load, or the search treats it as unreachable, so
\* no find_path faults on it and no returned path goes over such a record.
C13_ZeroCountGuarded ==
    (pc = "loaded" /\ PathCalled) =>
        /\ ~fault
        /\ result.some => \A i \in 2..Len(result.path) : result.path[i].count >= 1

\* a step of pass 3 that visits the list of one source tag
VisitsList == pc = "connect" /\ pc' = "connect" /\ idx' = idx /\ todo' # todo

\* C14: pass 3 keeps one explored set for all domains: visiting the list of
\* source s appends to Planet s one Connection (s, t.name) with count t.count
\* for exactly the records t whose name is not explored at that moment, and
\* marks s explored only after the whole list; hence a record naming A in a
\* later domain yields no Connection once A was a source key of an earlier
\* domain, related there or not.
C14_SharedExploredSet ==
    /\ [][VisitsList =>
            LET s == CHOOSE x \in todo : x \notin todo'
                kept == SelectSeq(meta_relations[idx].relation_map[s],
                                  LAMBDA t : t.name \notin explored_planets)
            IN /\ planets'[s].conns =
                      planets[s].conns
                      \o [j \in DOMAIN kept |-> Connection(s, kept[j].name, kept[j].count)]
               /\ explored_planets' = explored_planets \cup {s}
               /\ \A k \in DOMAIN planets \ {s} : planets'[k] = planets[k]]_vars
    /\ [](Generated =>
            \A A \in KeysOf(1) : \A B \in DOMAIN planets :
                \A j \in DOMAIN planets[B].conns :
                    planets[B].conns[j] # Connection(B, A, DomainCount(2)))

\* a is a key of the first domain with an empty list; the second domain
\* lists a under b, and b ends without any Connection
C14_Witness ==
    /\ Generated
    /\ KeysOf(1) = {"a"}
    /\ meta_relations[1].relation_map["a"] = <<>>
    /\ "b" \in KeysOf(2)
    /\ meta_relations[2].relation_map["b"] = <<ConnectedTag("a", DomainCount(2))>>
    /\ planets["b"].conns = <<>>

(***************************************************************************)
(* Properties of the edge weight                                           *)
(***************************************************************************)
\* w is floor(1000 / c) for a count c >= 1
IsFloorOf1000(w, c) ==
    /\ w >= 0
    /\ w <= 1000
    /\ c > 1000 => w = 0
    /\ c <= 1000 => (w * c <= 1000 /\ (w + 1) * c > 1000)

\* C15: for every record with a count c in 1..2^31-1 the weight handed to
\* the search is floor(1000 / c): non-negative, 1000 for c = 1, 0 for every
\* c > 1000 and non-increasing in c, so the cost of a returned path is at
\* most 1000 per edge and stays within the signed 32-bit range.
C15_WeightIsFloor ==
    pc = "loaded" =>
        /\ \A k \in KeysOf(1) :
              LET ns == Neighbours(StartNode(k), meta_relations[1].relation_map)
              IN \A j \in DOMAIN ns :
                    LET c == ns[j].node.count
                        w == ns[j].move_cost
                    IN /\ IsFloorOf1000(w, c)
                       /\ c = 1 => w = 1000
                       /\ c > 1 => Weight(c - 1) >= w
        /\ PathCalled =>
              /\ ~fault
              /\ result.some =>
                    /\ result.cost >= 0
                    /\ result.cost <= 1000 * (Len(result.path) - 1)
                    /\ result.cost <= I32Max

\* the path a, b, c over a record of count 1001 (weight 0) and one of count
\* 1 (weight 1000)
C15_Witness ==
    /\ PathCalled
    /\ result.some
    /\ Len(result.path) = 3
    /\ result.path[2].count = 1001
    /\ result.path[3].count = 1
    /\ result.cost = 1000

(***************************************************************************)
(* Properties of the merge of symmetric datasets                           *)
(***************************************************************************)
\* domain i lists b under the key a
Related(i, a, b) ==
    a \in KeysOf(i) /\ \E j \in DOMAIN meta_relations[i].relation_map[a] :
                          meta_relations[i].relation_map[a][j].name = b

\* C16: for a single domain whose relation map is symmetric and names no tag
\* twice in a list, the merged model holds exactly one Connection per
\* unordered pair of related tags and none for other pairs, for every
\* iteration order of the map entries.
C16_OneConnectionPerPair ==
    (Generated /\ Len(meta_relations) = 1 /\ Symmetric(meta_relations[1].relation_map)) =>
        \A a \in SymTags : \A b \in SymTags :
            Cardinality(ConnsBetween(a, b)) = IF Related(1, a, b) THEN 1 ELSE 0

\* a, b and c are related pairwise and a to itself; the map yields b first, so
\* b holds both of its Connections and a only the one to itself and to c or
\* none to b
C16_Witness ==
    /\ Generated
    /\ Len(meta_relations) = 1
    /\ \A x \in SymTags : \A y \in SymTags \ {x} : Related(1, x, y)
    /\ Related(1, "a", "a")
    /\ Len(planets["b"].conns) = 2
    /\ Cardinality(ConnsBetween("a", "a")) = 1
    /\ \A j \in DOMAIN planets["a"].conns :
          planets["a"].conns[j].planet_pairs # {<<"a", "b">>}

\* the unordered pairs that have a Connection on some Planet
ConnectedPairs ==
    {{p[1], p[2]} :
        p \in UNION {UNION {planets[k].conns[j].planet_pairs : j \in DOMAIN planets[k].conns}
                     : k \in DOMAIN planets}}

\* the unordered pairs pass 3 connects when every map yields its keys in the
\* order `order`: the run from key j of domain i on, with the explored set
\* and the pairs connected so far
RECURSIVE PairsInOrder(_, _, _, _, _, _)
PairsInOrder(metas, order, i, j, explored, pairs) ==
    IF i > Len(metas) THEN pairs
    ELSE IF j > Len(order) THEN PairsInOrder(metas, order, i + 1, 1, explored, pairs)
    ELSE IF order[j] \notin DOMAIN metas[i].relation_map
    THEN PairsInOrder(metas, order, i, j + 1, explored, pairs)
    ELSE LET cs == NewConns(order[j], metas[i].relation_map[order[j]], explored, 1)
         IN PairsInOrder(metas, order, i, j + 1, explored \cup {order[j]},
                         pairs \cup {{p[1], p[2]} :
                                        p \in UNION {cs[x].planet_pairs : x \in DOMAIN cs}})

\* no unordered pair is related in more than one domain
NoSharedPair ==
    \A i \in DOMAIN meta_relations : \A k \in DOMAIN meta_relations : \A a \in SymTags :
        \A b \in SymTags :
            (i # k /\ Related(i, a, b)) => (~Related(k, a, b) /\ ~Related(k, b, a))

\* C18 (as claimed): when every domain's relation map is symmetric and no
\* unordered pair is related in more than one domain, the set of unordered
\* pairs with a Connection in the merged model is the same for every
\* iteration order of the map entries: it is the set the run that yields
\* every map's keys in the order a, b, c connects.
C18_PairsIndependentOfOrder ==
    (/\ Generated
     /\ \A i \in DOMAIN meta_relations : Symmetric(meta_relations[i].relation_map)
     /\ NoSharedPair) =>
        ConnectedPairs = PairsInOrder(meta_relations, <<"a", "b", "c">>, 1, 1, {}, {})

(***************************************************************************)
(* Properties of the scene's use of the merged model                       *)
(***************************************************************************)
\* C17 (as claimed): every Connection stored on a Planet leads to a tag that
\* is itself a key of the planets map, so the lookup of the peer planet in
\* setup_planetary_connections never fails, for any input, a neighbor record
\* whose name is no key of any domain included.
C17_PeersArePlanets ==
    /\ Generated =>
          \A k \in DOMAIN planets : \A j \in DOMAIN planets[k].conns :
              PeerName(planets[k].conns[j]) \in DOMAIN planets
    /\ pc # "scene_panicked"

(***************************************************************************)
(* The search over (name, count) nodes against the graph of tag names      *)
(***************************************************************************)
\* no shortest-path cost: larger than the cost of every walk
Unreachable == I32Max

\* the edges into the tag v of the graph whose nodes are tag names
NameEdges(rm, v) ==
    UNION {{[from |-> u, w |-> 1000 \div rm[u][j].count] :
               j \in {x \in DOMAIN rm[u] : rm[u][x].name = v}}
           : u \in DOMAIN rm}

\* least cost of a walk of at most k edges from start to v in that graph
RECURSIVE NameDist(_, _, _, _)
NameDist(rm, start, v, k) ==
    IF k = 0 THEN (IF v = start THEN 0 ELSE Unreachable)
    ELSE LET ds == {NameDist(rm, start, v, k - 1)}
                   \cup {NameDist(rm, start, e.from, k - 1) + e.w :
                            e \in {x \in NameEdges(rm, v) :
                                      NameDist(rm, start, x.from, k - 1) # Unreachable}}
         IN CHOOSE d \in ds : \A x \in ds : d <= x

\* C19: the search identifies nodes by (name, count), so one tag can be
\* expanded as several nodes; yet on a map with counts >= 1 a returned path
\* never holds the same tag name twice, and its cost is the shortest-path
\* cost of the graph whose nodes are the tag names alone.
C19_NamesNeverRepeat ==
    (PathCalled /\ result.some) =>
        /\ \A i \in DOMAIN result.path : \A j \in DOMAIN result.path :
              i # j => result.path[i].name # result.path[j].name
        /\ result.cost = NameDist(RelationMap, op.start, op.goal, Cardinality(Tags))

\* more nodes were expanded than there are tags other than the goal, so one
\* tag was expanded as two nodes, and the path found visits all three tags
C19_Witness ==
    /\ PathCalled
    /\ result.some
    /\ expansions > Cardinality(Tags \ {op.goal})
    /\ Len(result.path) = Cardinality(Tags)

====
